---- MODULE Spec2Model ----
(***************************************************************************)
(* Model of 202507-app.py: one run of the Streamlit script over an         *)
(* uploaded CSV file.  The run is                                          *)
(*   preprocess_data -> project filter -> create_gantt_chart (which calls  *)
(*   get_dynamic_tick_format) -> status tracking (due-soon / overdue).     *)
(*                                                                         *)
(* Conventions of the model                                                *)
(*  - A date is a day number: day 0 is 2024-01-01 (a Monday), so           *)
(*    2025-01-01 is day 366 and 2025-03-03 is day 427.  The input dates    *)
(*    carry no time of day (the CSV holds YYYY-MM-DD).                     *)
(*  - NaT stands for pandas' NaT/NaN: a missing or unparseable cell.       *)
(*  - The string literals of the source are non-ASCII; the model writes    *)
(*    "Parent" for the mother-project type, "Sub" for the sub-project      *)
(*    type, "Milestone" for the milestone type, "Undefined" for the        *)
(*    undefined status, and "Daily" .. "Yearly" for the six view modes.    *)
(*  - Project names are ordered strings; the model writes them as the      *)
(*    integers 1 < 2 < ... in that order.                                  *)
(*  - Progress is a float in the source; the model counts it in percent    *)
(*    (1.0 is 100) and Progress_Finish in hundredths of a day, so that     *)
(*    Start + (Finish - Start) * 0.5 is exact.                             *)
(***************************************************************************)
EXTENDS Integers, Sequences, FiniteSets, TLC

VARIABLES
    columns,          \* the column names of the uploaded CSV
    rows,             \* its rows, in file order (df_original)
    filter_mode,      \* sidebar selectbox "filter mode"
    selection,        \* sidebar multiselect: the projects the user ticks
    view_mode,        \* sidebar selectbox "time axis"
    today,            \* datetime.now().date() at the run
    pc,               \* position of the script run
    df_processed,     \* result of preprocess_data
    df_filtered,      \* the frame after the project filter
    date_span,        \* date_min / date_max of get_dynamic_tick_format
    tickvals,         \* tick boundaries handed to the x axis (<<>>: None)
    ticktext,         \* their labels
    upcoming_tasks,   \* the due-soon view
    overdue_tasks,    \* the overdue view
    outcome           \* "none" while running, then "ok" or "error"

vars == <<columns, rows, filter_mode, selection, view_mode, today, pc,
          df_processed, df_filtered, date_span, tickvals, ticktext,
          upcoming_tasks, overdue_tasks, outcome>>

-----------------------------------------------------------------------------
(* Missing values and the calendar *)

\* A raw CSV cell of a date column is the day number of the date it spells,
\* EmptyCell when it is empty, or BadCell when its text is no date.
EmptyCell == -1

BadCell == -2

NaT == -1

notna(v) == v # NaT

\* pd.to_datetime(col, errors='coerce'): a cell that is no date becomes NaT.
to_datetime(cell) == IF cell >= 0 THEN cell ELSE NaT

IsLeap(y) == (y % 4 = 0) /\ ((y % 100 # 0) \/ (y % 400 = 0))

DaysInYear(y) == IF IsLeap(y) THEN 366 ELSE 365

DaysInMonth(y, m) ==
    IF m = 2 THEN (IF IsLeap(y) THEN 29 ELSE 28)
    ELSE IF m \in {4, 6, 9, 11} THEN 30 ELSE 31

RECURSIVE DaysBeforeYear(_)
DaysBeforeYear(y) ==
    IF y <= 2024 THEN 0 ELSE DaysBeforeYear(y - 1) + DaysInYear(y - 1)

RECURSIVE DaysBeforeMonth(_, _)
DaysBeforeMonth(y, m) ==
    IF m <= 1 THEN 0 ELSE DaysBeforeMonth(y, m - 1) + DaysInMonth(y, m - 1)

\* The day number of the calendar date y-m-d.
Timestamp(y, m, d) == DaysBeforeYear(y) + DaysBeforeMonth(y, m) + (d - 1)

RECURSIVE YearFrom(_, _)
YearFrom(y, n) == IF n < DaysInYear(y) THEN y ELSE YearFrom(y + 1, n - DaysInYear(y))

year(t) == YearFrom(2024, t)

RECURSIVE MonthFrom(_, _, _)
MonthFrom(y, m, n) ==
    IF n < DaysInMonth(y, m) THEN m ELSE MonthFrom(y, m + 1, n - DaysInMonth(y, m))

month(t) == MonthFrom(year(t), 1, t - DaysBeforeYear(year(t)))

day(t) == t - Timestamp(year(t), month(t), 1) + 1

\* Timestamp.weekday(): Monday is 0.  Day 0 is a Monday.
weekday(t) == t % 7

\* Timestamp.quarter
quarter(t) == ((month(t) - 1) \div 3) + 1

\* The first day of the month n months after the month of y-m.
MonthStartPlus(y, m, n) ==
    Timestamp(y + ((m - 1 + n) \div 12), ((m - 1 + n) % 12) + 1, 1)

-----------------------------------------------------------------------------
(* preprocess_data *)

MandatoryColumns == {"Task", "Project", "Type", "Start", "Finish"}

OptionalColumns == {"Completion_Date", "Status"}

\* progress_map, in percent; a status outside the map gives NaN, then 0.0.
progress_map(status) ==
    CASE status = "Closed" -> 100
      [] status = "In process" -> 50
      [] status = "Not start" -> 0
      [] status = "Undefined" -> 0
      [] OTHER -> 0

\* type_order; a type outside the map gives NaN, then 4.
type_order(type) ==
    CASE type = "Parent" -> 1
      [] type = "Sub" -> 2
      [] type = "Milestone" -> 3
      [] OTHER -> 4

\* df['Status'].fillna(..) when the column exists, else the constant column.
StatusColumn(cols, r) ==
    IF "Status" \in cols
    THEN (IF r.Status = "NaN" THEN "Undefined" ELSE r.Status)
    ELSE "Undefined"

\* A mask that forgets the type: milestones get a progress end too.
mask_AnyType(r) == notna(r.Start) /\ notna(r.Finish)

\* mask: the rows whose progress end is computed.
mask(r) == notna(r.Start) /\ notna(r.Finish) /\ r.Type # "Milestone"

\* A progress end measured back from the finish.
Progress_Finish_FromFinish(r) == r.Finish * 100 - (r.Finish - r.Start) * r.Progress

\* Start + (Finish - Start) * Progress, in hundredths of a day.
Progress_Finish(r) == r.Start * 100 + (r.Finish - r.Start) * r.Progress

\* The derived columns of one row (lines 23-44), before the sort.
Annotate(cols, r) ==
    LET dated == [r EXCEPT !.Start = to_datetime(r.Start),
                           !.Finish = to_datetime(r.Finish),
                           !.Completion_Date =
                               IF "Completion_Date" \in cols
                               THEN to_datetime(r.Completion_Date) ELSE NaT,
                           !.Status = StatusColumn(cols, r)]
        prog == [Task |-> dated.Task, Project |-> dated.Project,
                 Type |-> dated.Type, Status |-> dated.Status,
                 Start |-> dated.Start, Finish |-> dated.Finish,
                 Completion_Date |-> dated.Completion_Date,
                 Progress |-> progress_map(dated.Status),
                 Progress_Finish |-> NaT,
                 TypeOrder |-> type_order(dated.Type)]
    IN  IF mask(prog)
        THEN [prog EXCEPT !.Progress_Finish = Progress_Finish(prog)]
        ELSE prog

\* The order of sort_values(by=['Project', 'TypeOrder', 'Start']), ascending,
\* na_position='last': a NaT start sorts after every date.
StartBefore(s, t) == notna(s) /\ (~notna(t) \/ s < t)

\* A comparison that also puts a row before the rows it ties with.
SortBefore_Unstable(a, b) ==
    \/ a.Project < b.Project
    \/ /\ a.Project = b.Project
       /\ \/ a.TypeOrder < b.TypeOrder
          \/ /\ a.TypeOrder = b.TypeOrder
             /\ (StartBefore(a.Start, b.Start) \/ a.Start = b.Start)

SortBefore(a, b) ==
    \/ a.Project < b.Project
    \/ /\ a.Project = b.Project
       /\ \/ a.TypeOrder < b.TypeOrder
          \/ /\ a.TypeOrder = b.TypeOrder
             /\ StartBefore(a.Start, b.Start)

\* Insert x into the sorted s after every row that does not sort after it:
\* the sort over several columns is a stable one.
RECURSIVE Insert(_, _)
Insert(s, x) ==
    IF s = <<>> THEN <<x>>
    ELSE IF SortBefore(x, Head(s)) THEN <<x>> \o s
    ELSE <<Head(s)>> \o Insert(Tail(s), x)

RECURSIVE sort_values(_)
sort_values(s) ==
    IF s = <<>> THEN <<>>
    ELSE Insert(sort_values(SubSeq(s, 1, Len(s) - 1)), s[Len(s)])

\* Series.unique(): the distinct values in order of first appearance.
RECURSIVE unique(_)
unique(s) ==
    IF s = <<>> THEN <<>>
    ELSE LET front == unique(SubSeq(s, 1, Len(s) - 1))
         IN  IF \E i \in 1..Len(front) : front[i] = s[Len(s)]
             THEN front ELSE Append(front, s[Len(s)])

TaskColumn(rs) == [i \in 1..Len(rs) |-> rs[i].Task]

\* A frame: its rows, its column names, and the ordered categories of its
\* Task column.
EmptyFrame == [rows |-> <<>>, columns |-> {}, categories |-> <<>>]

preprocess_data(cols, rs) ==
    LET sorted == sort_values([i \in 1..Len(rs) |-> Annotate(cols, rs[i])])
    IN  [rows |-> sorted,
         columns |-> cols \cup {"Status", "Progress", "Progress_Finish", "TypeOrder"},
         categories |-> unique(TaskColumn(sorted))]

-----------------------------------------------------------------------------
(* The project filter of the main flow *)

\* Series.cat.remove_unused_categories(): the categories some row still uses,
\* in their order.
remove_unused_categories(cats, rs) ==
    LET used(c) == \E i \in 1..Len(rs) : rs[i].Task = c
    IN  SelectSeq(cats, used)

\* The projects that have a row of type Parent: the options of the multiselect.
parent_projects(df) ==
    {df.rows[i].Project : i \in {j \in 1..Len(df.rows) : df.rows[j].Type = "Parent"}}

\* The frame of the rows kept by a boolean mask, after
\* remove_unused_categories.
SelectRows(df, kept) ==
    [rows |-> kept, columns |-> df.columns,
     categories |-> remove_unused_categories(df.categories, kept)]

\* pd.DataFrame(columns=df_processed.columns)
EmptyLike(df) == [rows |-> <<>>, columns |-> df.columns, categories |-> <<>>]

FilterFrame(df, mode, sel) ==
    CASE mode = "ParentsOnly" ->
            LET isParent(r) == r.Type = "Parent"
            IN  SelectRows(df, SelectSeq(df.rows, isParent))
      [] mode = "ByParent" ->
            LET selected_projects == sel \cap parent_projects(df)
                inSelected(r) == r.Project \in selected_projects
            IN  IF parent_projects(df) # {} /\ selected_projects # {}
                THEN SelectRows(df, SelectSeq(df.rows, inSelected))
                ELSE EmptyLike(df)
      [] OTHER -> df

-----------------------------------------------------------------------------
(* get_dynamic_tick_format *)

Min(S) == CHOOSE x \in S : \A y \in S : x <= y

Max(S) == CHOOSE x \in S : \A y \in S : x >= y

\* Starts taken only from the rows that also have a finish.
valid_starts_FullyDated(rs) ==
    {rs[i].Start : i \in {j \in 1..Len(rs) : notna(rs[j].Start) /\ notna(rs[j].Finish)}}

\* df['Start'].dropna() and df['Finish'].dropna(), as sets of dates.
valid_starts(rs) == {rs[i].Start : i \in {j \in 1..Len(rs) : notna(rs[j].Start)}}

valid_finishes(rs) == {rs[i].Finish : i \in {j \in 1..Len(rs) : notna(rs[j].Finish)}}

NoSpan == [date_min |-> NaT, date_max |-> NaT]

DateSpan(rs) ==
    IF valid_starts(rs) = {} \/ valid_finishes(rs) = {}
    THEN NoSpan
    ELSE [date_min |-> Min(valid_starts(rs)), date_max |-> Max(valid_finishes(rs))]

\* The pandas offsets behind the frequency strings 'YS', '6MS', 'QS', 'W-MON'.
is_on_offset(freq, t) ==
    CASE freq = "YS" -> month(t) = 1 /\ day(t) = 1
      [] freq = "6MS" -> day(t) = 1
      [] freq = "QS" -> day(t) = 1 /\ month(t) % 3 = 1
      [] freq = "W-MON" -> weekday(t) = 0

\* t + offset for a t that is on the offset: the next date of the range.
apply_offset(freq, t) ==
    CASE freq = "YS" -> Timestamp(year(t) + 1, 1, 1)
      [] freq = "6MS" -> MonthStartPlus(year(t), month(t), 6)
      [] freq = "QS" -> MonthStartPlus(year(t), month(t), 3)
      [] freq = "W-MON" -> t + 7

\* offset.rollforward(t): t when it is on the offset, else t + one base
\* offset (the next year start, month start, quarter start or Monday).
rollforward(freq, t) ==
    IF is_on_offset(freq, t) THEN t
    ELSE CASE freq = "YS" -> Timestamp(year(t) + 1, 1, 1)
           [] freq = "6MS" -> MonthStartPlus(year(t), month(t), 1)
           [] freq = "QS" -> MonthStartPlus(year(t), 3 * ((month(t) - 1) \div 3) + 1, 3)
           [] freq = "W-MON" -> t + (7 - weekday(t))

RECURSIVE generate_range(_, _, _)
generate_range(freq, cur, end) ==
    IF cur > end THEN <<>>
    ELSE <<cur>> \o generate_range(freq, apply_offset(freq, cur), end)

\* pd.date_range(start=.., end=.., freq=..)
date_range(start, end, freq) == generate_range(freq, rollforward(freq, start), end)

\* A year range that starts from date_min itself.
YearStart_Unaligned(t) == t

\* date_min.to_period('Y').to_timestamp(): the first day of date_min's year.
YearStart(t) == Timestamp(year(t), 1, 1)

\* A week start that counts the weekday from Sunday.
WeekStart_FromSunday(t) == t - ((weekday(t) + 1) % 7)

\* date_min - pd.to_timedelta(date_min.weekday(), unit='d')
WeekStart(t) == t - weekday(t)

TickVals(span, mode) ==
    CASE mode = "Yearly" -> date_range(YearStart(span.date_min), span.date_max, "YS")
      [] mode = "Semiannual" -> date_range(span.date_min, span.date_max, "6MS")
      [] mode = "Quarterly" -> date_range(span.date_min, span.date_max, "QS")
      [] mode = "Weekly" -> date_range(WeekStart(span.date_min), span.date_max, "W-MON")
      [] OTHER -> <<>>

\* The label of one boundary: the numbers its text is formatted from.
TickLabel(mode, t) ==
    CASE mode = "Yearly" -> <<year(t)>>
      [] mode = "Semiannual" -> <<year(t), IF month(t) <= 6 THEN 1 ELSE 2>>
      [] mode = "Quarterly" -> <<year(t), quarter(t)>>
      [] mode = "Weekly" -> <<year(t), month(t), day(t)>>
      [] OTHER -> <<>>

\* The pair (tickvals, ticktext); <<>> stands for the None of the source,
\* which the empty list is turned into.
get_dynamic_tick_format(rs, mode) ==
    LET span == DateSpan(rs)
        vals == IF span = NoSpan THEN <<>> ELSE TickVals(span, mode)
    IN  [tickvals |-> vals,
         ticktext |-> [i \in 1..Len(vals) |-> TickLabel(mode, vals[i])]]

-----------------------------------------------------------------------------
(* Status tracking of the main flow *)

isnull(v) == v = NaT

\* A due-soon test that forgets the completion date.
IsUpcoming_AnyCompletion(r, now) ==
    /\ notna(r.Finish) /\ r.Finish >= now
    /\ notna(r.Finish) /\ r.Finish <= now + 7

\* A comparison with NaT is False.
IsUpcoming(r, now) ==
    /\ notna(r.Finish) /\ r.Finish >= now
    /\ notna(r.Finish) /\ r.Finish <= now + 7
    /\ isnull(r.Completion_Date)

IsOverdue(r, now) ==
    \/ (notna(r.Finish) /\ r.Finish < now) /\ isnull(r.Completion_Date)
    \/ /\ notna(r.Completion_Date) /\ notna(r.Finish)
       /\ r.Completion_Date > r.Finish

\* DataFrame.drop_duplicates(): a row equal to an earlier one is dropped.
RECURSIVE drop_duplicates(_)
drop_duplicates(s) ==
    IF s = <<>> THEN <<>>
    ELSE LET front == drop_duplicates(SubSeq(s, 1, Len(s) - 1))
         IN  IF \E i \in 1..Len(front) : front[i] = s[Len(s)]
             THEN front ELSE Append(front, s[Len(s)])

UpcomingView(rs, now) ==
    LET keep(r) == IsUpcoming(r, now) IN SelectSeq(rs, keep)

OverdueView(rs, now) ==
    LET keep(r) == IsOverdue(r, now) IN drop_duplicates(SelectSeq(rs, keep))

-----------------------------------------------------------------------------
(* The script run *)

\* df_processed = preprocess_data(df_original.copy()); a missing mandatory
\* column raises KeyError there, which the except clause reports.
Preprocess ==
    /\ pc = "start"
    /\ IF MandatoryColumns \subseteq columns
       THEN /\ df_processed' = preprocess_data(columns, rows)
            /\ pc' = "processed"
            /\ outcome' = outcome
       ELSE /\ df_processed' = df_processed
            /\ pc' = "done"
            /\ outcome' = "error"
    /\ UNCHANGED <<columns, rows, filter_mode, selection, view_mode, today,
                   df_filtered, date_span, tickvals, ticktext,
                   upcoming_tasks, overdue_tasks>>

Filter ==
    /\ pc = "processed"
    /\ df_filtered' = FilterFrame(df_processed, filter_mode, selection)
    /\ pc' = "filtered"
    /\ UNCHANGED <<columns, rows, filter_mode, selection, view_mode, today,
                   df_processed, date_span, tickvals, ticktext,
                   upcoming_tasks, overdue_tasks, outcome>>

\* create_gantt_chart: an empty frame gives an empty figure, else the axis
\* ticks come from get_dynamic_tick_format.
Chart ==
    /\ pc = "filtered"
    /\ IF df_filtered.rows = <<>>
       THEN UNCHANGED <<date_span, tickvals, ticktext>>
       ELSE LET t == get_dynamic_tick_format(df_filtered.rows, view_mode)
            IN  /\ date_span' = DateSpan(df_filtered.rows)
                /\ tickvals' = t.tickvals
                /\ ticktext' = t.ticktext
    /\ pc' = "charted"
    /\ UNCHANGED <<columns, rows, filter_mode, selection, view_mode, today,
                   df_processed, df_filtered, upcoming_tasks, overdue_tasks,
                   outcome>>

\* Lines 239-271: the two views; df_filtered['Completion_Date'] raises
\* KeyError when the frame has rows and no such column.
Track ==
    /\ pc = "charted"
    /\ IF df_filtered.rows = <<>>
       THEN /\ outcome' = "ok"
            /\ UNCHANGED <<upcoming_tasks, overdue_tasks>>
       ELSE IF "Completion_Date" \in df_filtered.columns
       THEN /\ upcoming_tasks' = UpcomingView(df_filtered.rows, today)
            /\ overdue_tasks' = OverdueView(df_filtered.rows, today)
            /\ outcome' = "ok"
       ELSE /\ outcome' = "error"
            /\ UNCHANGED <<upcoming_tasks, overdue_tasks>>
    /\ pc' = "done"
    /\ UNCHANGED <<columns, rows, filter_mode, selection, view_mode, today,
                   df_processed, df_filtered, date_span, tickvals, ticktext>>

Next == Preprocess \/ Filter \/ Chart \/ Track

-----------------------------------------------------------------------------
(* Inputs *)

Row(task, project, type, status, start, finish, completion) ==
    [Task |-> task, Project |-> project, Type |-> type, Status |-> status,
     Start |-> start, Finish |-> finish, Completion_Date |-> completion]

AllColumns == MandatoryColumns \cup OptionalColumns

\* The files of at most n rows drawn from the set R.
Files(R, n) == UNION {[1..k -> R] : k \in 0..n}

\* The state of a run that has not started, for given inputs.
RunStart(cols, rs, mode, sel, view, now) ==
    /\ columns = cols
    /\ rows = rs
    /\ filter_mode = mode
    /\ selection = sel
    /\ view_mode = view
    /\ today = now
    /\ pc = "start"
    /\ df_processed = EmptyFrame
    /\ df_filtered = EmptyFrame
    /\ date_span = NoSpan
    /\ tickvals = <<>>
    /\ ticktext = <<>>
    /\ upcoming_tasks = <<>>
    /\ overdue_tasks = <<>>
    /\ outcome = "none"

\* Bounds of the input families.
MaxSortRows == 2

MaxFilterRows == 2

MaxProgressRows == 1

MaxClassifyRows == 2

MaxSpanRows == 2

MaxStartDay == 100

\* Files that differ in what the sort reads: project, type and start.  The
\* task in file position i is named TaskNames[i], which tells apart the rows
\* that tie on all three.
TaskNames == <<"T1", "T2", "T3", "T4">>

SortCells ==
    {Row("T", p, ty, "NaN", s, Timestamp(2025, 1, 20), EmptyCell) :
        p \in {1, 2}, ty \in {"Parent", "Sub", "Milestone", "Task"},
        s \in {EmptyCell, Timestamp(2025, 1, 1), Timestamp(2025, 1, 6)}}

SortFiles ==
    {[i \in DOMAIN f |-> [f[i] EXCEPT !.Task = TaskNames[i]]] :
        f \in Files(SortCells, MaxSortRows)}

InitSort ==
    \E rs \in SortFiles :
        RunStart(AllColumns, rs, "All", {}, "Weekly", Timestamp(2025, 1, 15))

SortSpec == InitSort /\ [][Next]_vars

\* Files and filter settings that differ in what the project filter and the
\* Task categories read: task name, project and type.
FilterRows ==
    {Row(t, p, ty, "NaN", s, Timestamp(2025, 1, 20), EmptyCell) :
        t \in {"Design", "Build"}, p \in {1, 2}, ty \in {"Parent", "Sub"},
        s \in {Timestamp(2025, 1, 1), Timestamp(2025, 1, 6)}}

FilterSettings ==
    {<<"All", {}>>, <<"ParentsOnly", {}>>} \cup
    {<<"ByParent", sel>> : sel \in SUBSET {1, 2}}

InitFilter ==
    \E rs \in Files(FilterRows, MaxFilterRows), f \in FilterSettings :
        RunStart(AllColumns, rs, f[1], f[2], "Weekly", Timestamp(2025, 1, 15))

FilterSpec == InitFilter /\ [][Next]_vars

\* Files that differ in what the progress computation reads: type, status,
\* start and finish, with and without a Status column.
ProgressRows ==
    {Row("Design", 1, ty, st, s, f, EmptyCell) :
        ty \in {"Parent", "Milestone"},
        st \in {"Closed", "In process", "Not start", "NaN", "Done"},
        s \in {EmptyCell, BadCell, Timestamp(2025, 1, 1), Timestamp(2025, 1, 11)},
        f \in {EmptyCell, Timestamp(2025, 1, 4), Timestamp(2025, 1, 11)}}

InitProgress ==
    \E rs \in Files(ProgressRows, MaxProgressRows),
       cols \in {AllColumns, AllColumns \ {"Status"}} :
        /\ ("Status" \notin cols => \A i \in 1..Len(rs) : rs[i].Status = "NaN")
        /\ RunStart(cols, rs, "All", {}, "Weekly", Timestamp(2025, 1, 15))

ProgressSpec == InitProgress /\ [][Next]_vars

\* Files and evaluation dates that differ in what the two views read: finish
\* and completion date, with and without a Completion_Date column.
ClassifyRows ==
    {Row("Design", 1, ty, "NaN", Timestamp(2025, 1, 1), f, c) :
        ty \in {"Parent", "Sub"},
        f \in {EmptyCell, Timestamp(2025, 1, 10), Timestamp(2025, 1, 20)},
        c \in {EmptyCell, Timestamp(2025, 1, 20), Timestamp(2025, 1, 21)}}

ClassifyDays ==
    {Timestamp(2025, 1, 10), Timestamp(2025, 1, 12), Timestamp(2025, 1, 13),
     Timestamp(2025, 1, 15)}

InitClassify ==
    \E rs \in Files(ClassifyRows, MaxClassifyRows),
       cols \in {AllColumns, AllColumns \ {"Completion_Date"}, AllColumns \ {"Finish"}},
       mode \in {"All", "ParentsOnly"}, now \in ClassifyDays :
        /\ ("Completion_Date" \notin cols =>
                \A i \in 1..Len(rs) : rs[i].Completion_Date = EmptyCell)
        /\ ("Finish" \notin cols => \A i \in 1..Len(rs) : rs[i].Finish = EmptyCell)
        /\ RunStart(cols, rs, mode, {}, "Weekly", now)

ClassifySpec == InitClassify /\ [][Next]_vars

\* Files that differ in which rows carry a start and a finish.
SpanRows ==
    {Row("Design", 1, "Sub", "NaN", s, f, EmptyCell) :
        s \in {EmptyCell, BadCell, Timestamp(2025, 1, 1), Timestamp(2025, 1, 8)},
        f \in {EmptyCell, BadCell, Timestamp(2025, 1, 20), Timestamp(2025, 2, 3)}}

InitSpan ==
    \E rs \in Files(SpanRows, MaxSpanRows), view \in {"Weekly", "Yearly"} :
        RunStart(AllColumns, rs, "All", {}, view, Timestamp(2025, 1, 15))

SpanSpec == InitSpan /\ [][Next]_vars

\* One-task files over a range of start days and span lengths, under each of
\* the six view modes.
ViewModes == {"Daily", "Weekly", "Monthly", "Quarterly", "Semiannual", "Yearly"}

TickStarts == (0..MaxStartDay) \cup {Timestamp(2025, 3, 3)}

TickLengths == {-10, -1, 0, 1, 6, 7, 20, 45, 89, 92, 181, 184, 365, 366, 500, 731}

InitTick ==
    \E s \in TickStarts, n \in TickLengths, view \in ViewModes :
        s + n >= 0 /\
        RunStart(AllColumns,
                 <<Row("Design", 1, "Sub", "NaN", s, s + n, EmptyCell)>>,
                 "All", {}, view, Timestamp(2025, 1, 15))

TickSpec == InitTick /\ [][Next]_vars

Init == InitSort \/ InitFilter \/ InitProgress \/ InitClassify \/ InitSpan \/ InitTick

Spec == Init /\ [][Next]_vars

-----------------------------------------------------------------------------
(* Properties of the hierarchy sort (SortSpec) *)

Processed == pc \in {"processed", "filtered", "charted", "done"}

Charted == pc \in {"charted", "done"}

KindRank(type) ==
    IF type = "Parent" THEN 1 ELSE IF type = "Sub" THEN 2
    ELSE IF type = "Milestone" THEN 3 ELSE 4

\* The sort key of a file row; a row without a start comes after the dated
\* rows of its project and kind.
SortKey(r) ==
    <<r.Project, KindRank(r.Type), IF r.Start >= 0 THEN 0 ELSE 1,
      IF r.Start >= 0 THEN r.Start ELSE 0>>

RECURSIVE LexLess(_, _)
LexLess(a, b) ==
    /\ a # <<>>
    /\ \/ Head(a) < Head(b)
       \/ Head(a) = Head(b) /\ LexLess(Tail(a), Tail(b))

\* out holds the file rows in the order p: out[i] is file row p[i].
Reorders(out, p) ==
    \A i \in 1..Len(out) :
        /\ out[i].Task = rows[p[i]].Task
        /\ out[i].Project = rows[p[i]].Project
        /\ out[i].Type = rows[p[i]].Type
        /\ out[i].Start = (IF rows[p[i]].Start >= 0 THEN rows[p[i]].Start ELSE NaT)

\* C3: preprocess_data returns the same tasks ordered by project, then kind
\* rank (Parent 1 < Sub 2 < Milestone 3 < other 4), then start, tasks that
\* tie on all three keeping their file order; sorting the result again
\* changes nothing.
C3_SortedStable ==
    Processed =>
        LET out == df_processed.rows
        IN  /\ Len(out) = Len(rows)
            /\ \E p \in Permutations(1..Len(rows)) :
                  /\ Reorders(out, p)
                  /\ \A i, j \in 1..Len(rows) :
                        i < j =>
                            \/ LexLess(SortKey(rows[p[i]]), SortKey(rows[p[j]]))
                            \/ /\ SortKey(rows[p[i]]) = SortKey(rows[p[j]])
                               /\ p[i] < p[j]
            /\ sort_values(out) = out

\* Two tasks of one project and kind whose file order is the reverse of their
\* start order have been put in start order.
C3_Witness ==
    /\ pc = "done"
    /\ Len(rows) = 2
    /\ rows[1].Project = rows[2].Project
    /\ rows[1].Type = rows[2].Type
    /\ rows[1].Start > rows[2].Start
    /\ rows[2].Start >= 0
    /\ df_processed.rows[1].Task = rows[2].Task
    /\ df_processed.rows[2].Task = rows[1].Task

-----------------------------------------------------------------------------
(* Properties of the display order (FilterSpec) *)

\* The display order of a frame has one slot per row, in row order.
OneSlotPerRow(df) ==
    /\ Len(df.categories) = Len(df.rows)
    /\ \A i \in 1..Len(df.rows) : df.categories[i] = df.rows[i].Task

\* s is t with some elements left out, the others in their order.
RECURSIVE IsSubsequence(_, _)
IsSubsequence(s, t) ==
    IF s = <<>> THEN TRUE
    ELSE IF t = <<>> THEN FALSE
    ELSE IF Head(s) = Head(t) THEN IsSubsequence(Tail(s), Tail(t))
    ELSE IsSubsequence(s, Tail(t))

\* A name is used at most once within a project (it may be used again in
\* another project).
NamesUniqueWithinProject ==
    \A i, j \in 1..Len(rows) :
        (i # j /\ rows[i].Project = rows[j].Project) => rows[i].Task # rows[j].Task

\* C10: every task has a display slot of its own, the slots follow the sorted
\* order, also when two tasks of different projects share a name; after a
\* project filter the remaining tasks keep their relative order and the
\* removed tasks' slots are left out.
C10_OneSlotPerTask ==
    NamesUniqueWithinProject =>
        /\ Processed => OneSlotPerRow(df_processed)
        /\ pc \in {"filtered", "charted", "done"} =>
              /\ OneSlotPerRow(df_filtered)
              /\ IsSubsequence(df_filtered.rows, df_processed.rows)
              /\ IsSubsequence(df_filtered.categories, df_processed.categories)

\* What the code keeps of C10: the display order lists the distinct task
\* names in the order of their first row, and a filter leaves out the names
\* no remaining row uses.
DisplayOrderByName ==
    pc \in {"filtered", "charted", "done"} =>
        /\ IsSubsequence(df_filtered.rows, df_processed.rows)
        /\ IsSubsequence(df_filtered.categories, df_processed.categories)
        /\ \A i \in 1..Len(df_filtered.rows) :
              \E k \in 1..Len(df_filtered.categories) :
                  df_filtered.categories[k] = df_filtered.rows[i].Task
        /\ \A k, l \in 1..Len(df_filtered.categories) :
              k # l => df_filtered.categories[k] # df_filtered.categories[l]

-----------------------------------------------------------------------------
(* Properties of the progress computation (ProgressSpec) *)

\* The fraction the status stands for, in percent; status is the text of the
\* file's Status cell, "NaN" when the cell is empty or the column is missing.
StatusFraction(status) ==
    IF status = "Closed" THEN 100 ELSE IF status = "In process" THEN 50 ELSE 0

FileStatus(i) == IF "Status" \in columns THEN rows[i].Status ELSE "NaN"

FileDate(cell) == IF cell >= 0 THEN cell ELSE NaT

\* The processed row r is the file row i with its derived columns.
IsRowOf(r, i) ==
    /\ r.Task = rows[i].Task /\ r.Project = rows[i].Project
    /\ r.Type = rows[i].Type
    /\ r.Start = FileDate(rows[i].Start)
    /\ r.Finish = FileDate(rows[i].Finish)
    /\ r.Progress = StatusFraction(FileStatus(i))

ProgressEndDefined(r) == r.Start # NaT /\ r.Finish # NaT /\ r.Type # "Milestone"

FractionByStatus ==
    /\ \A k \in 1..Len(df_processed.rows) :
          LET r == df_processed.rows[k]
          IN  /\ r.Progress \in 0..100
              /\ r.Progress = StatusFraction(r.Status)
    /\ \A i \in 1..Len(rows) :
          \E k \in 1..Len(df_processed.rows) : IsRowOf(df_processed.rows[k], i)

\* C6 as stated: progress_fraction is in [0, 1] and fixed by status alone,
\* and a defined progress_end equals start + (finish - start) * fraction and
\* lies between start and finish, for any start and finish of the input.
C6_ProgressWithinStartFinish ==
    Processed =>
        /\ FractionByStatus
        /\ \A k \in 1..Len(df_processed.rows) :
              LET r == df_processed.rows[k]
              IN  ProgressEndDefined(r) =>
                      /\ r.Progress_Finish * 100 =
                            r.Start * 10000 + (r.Finish - r.Start) * r.Progress * 100
                      /\ r.Start * 100 <= r.Progress_Finish
                      /\ r.Progress_Finish <= r.Finish * 100

\* C6 amended: progress_fraction is in [0, 1] and fixed by status alone; a
\* defined progress_end equals start + (finish - start) * fraction, which
\* lies between start and finish when start <= finish and between finish and
\* start when the input carries a finish before its start.
C6_ProgressBetweenDates ==
    Processed =>
        /\ FractionByStatus
        /\ \A k \in 1..Len(df_processed.rows) :
              LET r == df_processed.rows[k]
              IN  IF ProgressEndDefined(r)
                  THEN /\ r.Progress_Finish * 100 =
                             r.Start * 10000 + (r.Finish - r.Start) * r.Progress * 100
                       /\ r.Start <= r.Finish =>
                             /\ r.Start * 100 <= r.Progress_Finish
                             /\ r.Progress_Finish <= r.Finish * 100
                       /\ r.Start > r.Finish =>
                             /\ r.Finish * 100 <= r.Progress_Finish
                             /\ r.Progress_Finish <= r.Start * 100
                  ELSE r.Progress_Finish = NaT

\* A task in process from 2025-01-01 to 2025-01-11 has its progress end on
\* 2025-01-06.
C6_Witness ==
    /\ pc = "done"
    /\ \E k \in 1..Len(df_processed.rows) :
          LET r == df_processed.rows[k]
          IN  /\ r.Status = "In process" /\ r.Type = "Parent"
              /\ r.Start = Timestamp(2025, 1, 1)
              /\ r.Finish = Timestamp(2025, 1, 11)
              /\ r.Progress_Finish = Timestamp(2025, 1, 6) * 100

\* C7 as stated: a milestone has progress_fraction 0 and no progress_end,
\* whatever its status and dates.
C7_MilestoneNoProgress ==
    Processed =>
        \A k \in 1..Len(df_processed.rows) :
            LET r == df_processed.rows[k]
            IN  r.Type = "Milestone" => (r.Progress = 0 /\ r.Progress_Finish = NaT)

\* C7 amended: a milestone has no progress_end, whatever its status and
\* dates; its progress_fraction follows its status like any other task's
\* (Closed 1.0, In process 0.5, otherwise 0.0).
C7_MilestoneNoProgressEnd ==
    Processed =>
        /\ \A k \in 1..Len(df_processed.rows) :
              LET r == df_processed.rows[k]
              IN  r.Type = "Milestone" =>
                      /\ r.Progress_Finish = NaT
                      /\ r.Progress = StatusFraction(r.Status)
        /\ \A i \in 1..Len(rows) :
              rows[i].Type = "Milestone" =>
                  \E k \in 1..Len(df_processed.rows) :
                      /\ IsRowOf(df_processed.rows[k], i)
                      /\ df_processed.rows[k].Progress_Finish = NaT

\* A closed milestone with both dates: fraction 1.0, no progress end.
C7_Witness ==
    /\ pc = "done"
    /\ \E k \in 1..Len(df_processed.rows) :
          LET r == df_processed.rows[k]
          IN  /\ r.Type = "Milestone" /\ r.Status = "Closed"
              /\ r.Start # NaT /\ r.Finish # NaT
              /\ r.Progress = 100 /\ r.Progress_Finish = NaT

-----------------------------------------------------------------------------
(* Properties of the overdue and due-soon views (ClassifySpec) *)

InView(view, r) == \E i \in 1..Len(view) : view[i] = r

\* The conditions of the specification's classifier.
OverdueCondition(r, now) ==
    \/ r.Finish < now /\ r.Completion_Date = NaT
    \/ r.Completion_Date # NaT /\ r.Completion_Date > r.Finish

DueSoonCondition(r, now) ==
    /\ now <= r.Finish /\ r.Finish <= now + 7
    /\ r.Completion_Date = NaT

\* Each task of the assembled list with a finish date is in a view exactly
\* when the view's condition holds of it.
ViewsFollowConditions ==
    \A k \in 1..Len(df_filtered.rows) :
        LET r == df_filtered.rows[k]
        IN  r.Finish # NaT =>
                /\ InView(overdue_tasks, r) <=> OverdueCondition(r, today)
                /\ InView(upcoming_tasks, r) <=> DueSoonCondition(r, today)

\* C1: a task with a finish date is in the overdue view exactly when
\* (finish < today and no completion date) or (completion date > finish), and
\* in the due-soon view exactly when today <= finish <= today + 7 days and no
\* completion date.
C1_ViewsFollowConditions ==
    (pc = "done" /\ MandatoryColumns \subseteq columns) => ViewsFollowConditions

\* What the code keeps of C1: the same, for a file that has a Completion_Date
\* column.
ViewsFollowConditionsWithColumn ==
    (pc = "done" /\ AllColumns \subseteq columns) =>
        (outcome = "ok" /\ ViewsFollowConditions)

\* C2: no task is in both the overdue and the due-soon view; a task completed
\* late is in the overdue view only; a task without a finish date is in
\* neither view.
C2_ViewsExclusive ==
    \A k \in 1..Len(df_filtered.rows) :
        LET r == df_filtered.rows[k]
        IN  /\ ~(InView(overdue_tasks, r) /\ InView(upcoming_tasks, r))
            /\ r.Finish = NaT =>
                  (~InView(overdue_tasks, r) /\ ~InView(upcoming_tasks, r))
            /\ (pc = "done" /\ r.Finish # NaT /\ r.Completion_Date # NaT
                    /\ r.Completion_Date > r.Finish) =>
                  (InView(overdue_tasks, r) /\ ~InView(upcoming_tasks, r))

\* A task completed late whose finish lies within the next 7 days, beside a
\* task without a finish date: the first is overdue only, the second in
\* neither view.
C2_Witness ==
    /\ pc = "done" /\ outcome = "ok"
    /\ \E k \in 1..Len(df_filtered.rows) :
          LET r == df_filtered.rows[k]
          IN  /\ r.Completion_Date # NaT /\ r.Completion_Date > r.Finish
              /\ today <= r.Finish /\ r.Finish <= today + 7
              /\ InView(overdue_tasks, r) /\ ~InView(upcoming_tasks, r)
    /\ \E k \in 1..Len(df_filtered.rows) :
          /\ df_filtered.rows[k].Finish = NaT
          /\ ~InView(overdue_tasks, df_filtered.rows[k])

\* C8: a file with all mandatory columns and no Completion_Date column runs
\* without an error outcome and gives both views with every completion date
\* taken as absent.
C8_CompletionDateOptional ==
    (pc = "done" /\ MandatoryColumns \subseteq columns
        /\ "Completion_Date" \notin columns) =>
        /\ outcome = "ok"
        /\ ViewsFollowConditions

-----------------------------------------------------------------------------
(* Properties of the tick range (SpanSpec) *)

\* The dates of the file's rows: all starts, all finishes, and those of the
\* rows that have both.
FileStarts == {rows[i].Start : i \in {j \in 1..Len(rows) : rows[j].Start >= 0}}

FileFinishes == {rows[i].Finish : i \in {j \in 1..Len(rows) : rows[j].Finish >= 0}}

FullyDated == {i \in 1..Len(rows) : rows[i].Start >= 0 /\ rows[i].Finish >= 0}

IsLeast(x, S) == x \in S /\ \A y \in S : x <= y

IsGreatest(x, S) == x \in S /\ \A y \in S : x >= y

\* Every row of the file is in the assembled list.
AllRowsListed ==
    /\ Len(df_processed.rows) = Len(rows)
    /\ \A i \in 1..Len(rows) :
          \E k \in 1..Len(df_processed.rows) :
              /\ df_processed.rows[k].Start = FileDate(rows[i].Start)
              /\ df_processed.rows[k].Finish = FileDate(rows[i].Finish)

-----------------------------------------------------------------------------
(* Properties of the tick boundaries (TickSpec) *)

StrictlyIncreasing(s) == \A i \in 1..(Len(s) - 1) : s[i] < s[i + 1]

Last(s) == s[Len(s)]

\* 2025-03-03 is a Monday.
IsMonday(t) == (t - Timestamp(2025, 3, 3)) % 7 = 0

IsMonthStart(t) == \E y \in 2024..2027, m \in 1..12 : t = Timestamp(y, m, 1)

IsQuarterStart(t) == \E y \in 2024..2027, m \in {1, 4, 7, 10} : t = Timestamp(y, m, 1)

\* The end of the bucket that starts on the boundary t.
BucketEnd(mode, t) ==
    CASE mode = "Weekly" -> t + 7
      [] mode = "Quarterly" -> MonthStartPlus(year(t), month(t), 3)
      [] mode = "Semiannual" -> MonthStartPlus(year(t), month(t), 6)
      [] mode = "Yearly" -> MonthStartPlus(year(t), month(t), 12)

ListModes == {"Weekly", "Quarterly", "Semiannual", "Yearly"}

HasTicks == Charted /\ view_mode \in ListModes /\ tickvals # <<>>

C5_WeeklyMondays ==
    (Charted /\ view_mode = "Weekly" /\ date_span # NoSpan) =>
        /\ date_span.date_min <= date_span.date_max => tickvals # <<>>
        /\ \A i \in 1..Len(tickvals) :
              IsMonday(tickvals[i]) /\ tickvals[i] <= date_span.date_max
        /\ tickvals # <<>> =>
              /\ tickvals[1] <= date_span.date_min
              /\ date_span.date_min < tickvals[1] + 7
              /\ IsMonday(date_span.date_min) => tickvals[1] = date_span.date_min
        /\ \A i \in 1..(Len(tickvals) - 1) : tickvals[i + 1] = tickvals[i] + 7

\* A task that starts on Monday 2025-03-03: the first boundary is that day.
C5_Witness ==
    /\ pc = "done" /\ view_mode = "Weekly"
    /\ date_span.date_min = Timestamp(2025, 3, 3)
    /\ Len(tickvals) >= 3
    /\ tickvals[1] = Timestamp(2025, 3, 3)

====
